---- MODULE Spec2Model ----
(***************************************************************************)
(* Ride lifecycle and pooling engine of the CabPool backend                *)
(* (src/controllers/rideController.js over src/models/rideModel.js).       *)
(*                                                                         *)
(* The store is four collections: rides, users, landmarks, cities.  Every  *)
(* handler is cut at its awaits: one step performs one store operation     *)
(* and then runs the synchronous code up to the next one.  Step gives the  *)
(* outcomes of one step, Run the outcomes of a whole handler.              *)
(*   Spec      every request runs to completion before the next starts;    *)
(*   SpecConc  requests in flight interleave at their awaits.              *)
(*                                                                         *)
(* Abstractions: Date.now() timestamps are kept as set / not set; points   *)
(* lie on a line and are given in kilometres; a uuid is the number of the  *)
(* ride it was generated for.  Amounts are IEEE 754 doubles, as in the     *)
(* program; counters and kilometres are whole numbers.                     *)
(***************************************************************************)
EXTENDS Integers, Sequences, FiniteSets, TLC

\* ------------------------------------------------------------------ bounds
\* rides that can exist
MaxRides == 2
\* successful requests served in a behaviour of Spec
MaxOps == 5
\* requests started in a behaviour of SpecConc
MaxConcRequests == 3
\* successful requests served in a behaviour of SpecGuards
MaxGuardOps == 4

\* calculateFare is called with distances of 0 .. MaxTenths tenths of a kilometre
MaxTenths == 100
\* and with 1 .. MaxPassengers passengers
MaxPassengers == 6

\* ------------------------------------------------------------------ actors
Passengers == {"p1", "p2"}
Drivers == {"d1", "d2", "d3"}
Admins == {"admin"}
UserIds == Passengers \cup Drivers \cup Admins
NoUser == "none"

RoleOf(u) ==
  IF u \in Passengers THEN "passenger"
  ELSE IF u \in Drivers THEN "driver" ELSE "admin"

\* ------------------------------------------------------------------ values
Min(a, b) == IF a <= b THEN a ELSE b
Max(a, b) == IF a >= b THEN a ELSE b
Abs(x) == IF x < 0 THEN 0 - x ELSE x

LandmarkIds == {"L1", "L2"}

\* the request bodies a passenger may post to createRide
RideRequests ==
  { [pickupLandmarkId |-> "L1", scheduledTime |-> 0, passengerCount |-> 1,
     destination |-> [address |-> "A", location |-> [coordinates |-> 10]]],
    [pickupLandmarkId |-> "L1", scheduledTime |-> 1800000, passengerCount |-> 2,
     destination |-> [address |-> "B", location |-> [coordinates |-> 13]]],
    [pickupLandmarkId |-> "L2", scheduledTime |-> 0, passengerCount |-> 1,
     destination |-> [address |-> "A", location |-> [coordinates |-> 10]]],
    [pickupLandmarkId |-> "L9", scheduledTime |-> 0, passengerCount |-> 1,
     destination |-> [address |-> "A", location |-> [coordinates |-> 10]]],
    [pickupLandmarkId |-> "L1", scheduledTime |-> 0, passengerCount |-> 1,
     destination |-> [address |-> "A"]] }

\* bookings from landmark L1 that lie an hour and 6 km apart from each other, one
\* in the middle of them, and one from landmark L2
PoolRequests ==
  { [pickupLandmarkId |-> "L1", scheduledTime |-> 0, passengerCount |-> 1,
     destination |-> [address |-> "A", location |-> [coordinates |-> 10]]],
    [pickupLandmarkId |-> "L1", scheduledTime |-> 0, passengerCount |-> 1,
     destination |-> [address |-> "C", location |-> [coordinates |-> 16]]],
    [pickupLandmarkId |-> "L1", scheduledTime |-> 3600000, passengerCount |-> 1,
     destination |-> [address |-> "A", location |-> [coordinates |-> 10]]],
    [pickupLandmarkId |-> "L1", scheduledTime |-> 3600000, passengerCount |-> 1,
     destination |-> [address |-> "C", location |-> [coordinates |-> 16]]],
    [pickupLandmarkId |-> "L1", scheduledTime |-> 1800000, passengerCount |-> 2,
     destination |-> [address |-> "B", location |-> [coordinates |-> 13]]],
    [pickupLandmarkId |-> "L2", scheduledTime |-> 1800000, passengerCount |-> 1,
     destination |-> [address |-> "B", location |-> [coordinates |-> 13]]] }

Reasons == {"", "plans changed"}
Ratings == {0, 1, 5, 6}

VARIABLES rides, users, landmarks, cities, resp, served, inflight

vars == <<rides, users, landmarks, cities, resp, served, inflight>>

\* ------------------------------------------------------------------ numbers
\* A JavaScript number is an IEEE 754 double: [m, e] stands for m * 2^e with
\* 2^52 <= m < 2^53, and Zero for 0.  No amount here is negative, infinite or NaN.
\* A mantissa, and every intermediate whole number, is written to the base Radix,
\* lowest digit first, without leading zero digits; <<>> is 0.
Radix == 2 ^ 15

BigTrim(a) ==
  SubSeq(a, 1, IF \A i \in 1..Len(a) : a[i] = 0 THEN 0
               ELSE CHOOSE i \in 1..Len(a) : a[i] # 0 /\ \A j \in (i + 1)..Len(a) : a[j] = 0)

BigOf(n) == BigTrim(<<n % Radix, (n \div Radix) % Radix, n \div (Radix * Radix)>>)

Digit(a, i) == IF i <= Len(a) THEN a[i] ELSE 0

BigAdd(a, b) ==
  LET carry[i \in 0..Max(Len(a), Len(b)) + 1] ==
        IF i = 0 THEN 0 ELSE (Digit(a, i) + Digit(b, i) + carry[i - 1]) \div Radix
  IN BigTrim([i \in 1..Max(Len(a), Len(b)) + 1 |->
               (Digit(a, i) + Digit(b, i) + carry[i - 1]) % Radix])

BigSub(a, b) ==
  LET borrow[i \in 0..Len(a)] ==
        IF i = 0 THEN 0 ELSE IF a[i] - Digit(b, i) - borrow[i - 1] < 0 THEN 1 ELSE 0
  IN BigTrim([i \in 1..Len(a) |-> (a[i] - Digit(b, i) - borrow[i - 1] + Radix) % Radix])

BigMulDigit(a, k) ==
  LET carry[i \in 0..Len(a) + 1] ==
        IF i = 0 THEN 0 ELSE (Digit(a, i) * k + carry[i - 1]) \div Radix
  IN BigTrim([i \in 1..Len(a) + 1 |-> (Digit(a, i) * k + carry[i - 1]) % Radix])

BigShiftDigits(a, k) == IF a = <<>> THEN a ELSE [i \in 1..k |-> 0] \o a

BigMul(a, b) ==
  LET sum[j \in 0..Len(b)] ==
        IF j = 0 THEN <<>>
        ELSE BigAdd(sum[j - 1], BigShiftDigits(BigMulDigit(a, b[j]), j - 1))
  IN sum[Len(b)]

BigLess(a, b) ==
  IF Len(a) # Len(b) THEN Len(a) < Len(b)
  ELSE \E i \in 1..Len(a) : a[i] < b[i] /\ \A j \in (i + 1)..Len(a) : a[j] = b[j]

DigitBits(n) == CHOOSE k \in 0..15 : n < 2 ^ k /\ (k = 0 \/ n >= 2 ^ (k - 1))

BigBits(a) == IF a = <<>> THEN 0 ELSE 15 * (Len(a) - 1) + DigitBits(a[Len(a)])

ShiftLeft(a, s) == BigShiftDigits(BigMulDigit(a, 2 ^ (s % 15)), s \div 15)

ShiftRight(a, s) ==
  BigTrim([i \in 1..(Len(a) - (s \div 15)) |->
            (Digit(a, i + (s \div 15)) \div (2 ^ (s % 15)))
            + (Digit(a, i + (s \div 15) + 1) % (2 ^ (s % 15))) * (2 ^ (15 - (s % 15)))])

\* quotient and remainder of n by d, the quotient below 2^bits
BigDivBit(n, t, bit) ==
  IF BigLess(n, t) THEN [quot |-> <<>>, rem |-> n]
  ELSE [quot |-> bit, rem |-> BigSub(n, t)]

BigDivJoin(upper, lower) ==
  [quot |-> BigAdd(upper.quot, lower.quot), rem |-> lower.rem]

BigDivBits[x \in [n : Seq(Nat), d : Seq(Nat), hi : Nat, lo : Nat]] ==
  LET mid == (x.hi + x.lo + 1) \div 2
      Lower(upper) == BigDivJoin(upper, BigDivBits[[x EXCEPT !.n = upper.rem, !.hi = mid - 1]])
  IN IF x.hi = x.lo THEN BigDivBit(x.n, ShiftLeft(x.d, x.hi), ShiftLeft(<<1>>, x.hi))
     ELSE Lower(BigDivBits[[x EXCEPT !.lo = mid]])

BigDiv(n, d, bits) == BigDivBits[[n |-> n, d |-> d, hi |-> bits - 1, lo |-> 0]]

Zero == [m |-> <<>>, e |-> 0]

Carried(m, e) ==
  IF BigBits(m) = 54 THEN [m |-> ShiftRight(m, 1), e |-> e + 1] ELSE [m |-> m, e |-> e]

RoundedUp(q, rem, half, e) ==
  Carried(IF BigLess(half, rem) \/ (rem = half /\ q[1] % 2 = 1) THEN BigAdd(q, <<1>>) ELSE q, e)

RoundedTo(n, q, s, e) ==
  RoundedUp(q, BigSub(n, ShiftLeft(q, s)), ShiftLeft(<<1>>, s - 1), e + s)

Round(n, e) ==
  IF n = <<>> THEN Zero
  ELSE IF BigBits(n) <= 53
  THEN [m |-> ShiftLeft(n, 53 - BigBits(n)), e |-> e - (53 - BigBits(n))]
  ELSE RoundedTo(n, ShiftRight(n, BigBits(n) - 53), BigBits(n) - 53, e)

Sticky(r) == BigAdd(BigAdd(r.quot, r.quot), IF r.rem = <<>> THEN <<>> ELSE <<1>>)

QuotientAt(n, d, e, s) ==
  Round(Sticky(BigDiv(IF s > 0 THEN ShiftLeft(n, s) ELSE n,
                      IF s < 0 THEN ShiftLeft(d, 0 - s) ELSE d, 57)), e - s - 1)

Quotient(n, d, e) ==
  IF n = <<>> THEN Zero ELSE IF d = <<1>> THEN Round(n, e)
  ELSE QuotientAt(n, d, e, 55 - (BigBits(n) - BigBits(d)))

Number(n, d) == Quotient(BigOf(n), BigOf(d), 0)

Times(x, y) == Round(BigMul(x.m, y.m), x.e + y.e)

Over(x, y) == Quotient(x.m, y.m, x.e - y.e)

AlignedTo(x, e) == ShiftLeft(x.m, x.e - e)

Plus(x, y) ==
  Round(BigAdd(AlignedTo(x, Min(x.e, y.e)), AlignedTo(y, Min(x.e, y.e))), Min(x.e, y.e))

Less(x, y) == BigLess(AlignedTo(x, Min(x.e, y.e)), AlignedTo(y, Min(x.e, y.e)))

Minus(x, y) ==
  Round(BigSub(AlignedTo(x, Min(x.e, y.e)), AlignedTo(y, Min(x.e, y.e))), Min(x.e, y.e))

MathMin(x, y) == IF Less(y, x) THEN y ELSE x

\* ------------------------------------------------------------------ store
DB == [rides |-> rides, users |-> users, landmarks |-> landmarks, cities |-> cities]

RideIds(db) == DOMAIN db.rides

InitUsers ==
  [u \in UserIds |->
    [role |-> RoleOf(u),
     driverDetails |-> [isVerified |-> u \in {"d1", "d2"}],
     rating |-> [average |-> Zero, count |-> 0],
     stats |-> [ridesCompleted |-> 0, totalDistance |-> 0, totalEarnings |-> Zero]]]

InitLandmarks ==
  [l \in LandmarkIds |->
    [city |-> IF l = "L1" THEN "C1" ELSE "C2",
     location |-> IF l = "L1" THEN 0 ELSE 10,
     stats |-> [pickupCount |-> 0]]]

InitCities ==
  [c \in {"C1", "C2"} |-> [stats |-> [totalRides |-> 0, totalRevenue |-> Zero]]]

\* ------------------------------------------------------------------ utils
calculateDistance(a, b) == Abs(a - b)

\* a statement  const x = v  followed by F: v is worked out where it stands
Bind(v, F(_)) == CHOOSE r \in {F(x) : x \in {v}} : TRUE

calculateFareUnsplit(distance, passengers) ==
  LET baseFare == Number(50, 1)
      perKmRate == Number(12, 1)
  IN Bind(Times(distance, perKmRate), LAMBDA distanceFare :
     Bind(Plus(baseFare, distanceFare), LAMBDA totalFare :
     Bind(IF passengers > 1
          THEN MathMin(Number(4, 10), Times(Number(1, 10), Number(passengers - 1, 1)))
          ELSE Zero, LAMBDA discount :
     Bind(IF passengers > 1 THEN Times(totalFare, Minus(Number(1, 1), discount))
          ELSE totalFare, LAMBDA sharedFare :
       [baseFare |-> baseFare,
        distanceFare |-> distanceFare,
        totalFare |-> totalFare,
        discount |-> Times(discount, Number(100, 1)),
        sharedFare |-> sharedFare,
        farePerPassenger |-> sharedFare,
        currency |-> "INR"]))))

calculateFareUncapped(distance, passengers) ==
  LET baseFare == Number(50, 1)
      perKmRate == Number(12, 1)
  IN Bind(Times(distance, perKmRate), LAMBDA distanceFare :
     Bind(Plus(baseFare, distanceFare), LAMBDA totalFare :
     Bind(IF passengers > 1
          THEN Times(Number(1, 10), Number(passengers - 1, 1))
          ELSE Zero, LAMBDA discount :
     Bind(IF passengers > 1 THEN Times(totalFare, Minus(Number(1, 1), discount))
          ELSE totalFare, LAMBDA sharedFare :
       [baseFare |-> baseFare,
        distanceFare |-> distanceFare,
        totalFare |-> totalFare,
        discount |-> Times(discount, Number(100, 1)),
        sharedFare |-> sharedFare,
        farePerPassenger |-> Over(sharedFare, Number(passengers, 1)),
        currency |-> "INR"]))))

calculateFare(distance, passengers) ==
  LET baseFare == Number(50, 1)
      perKmRate == Number(12, 1)
  IN Bind(Times(distance, perKmRate), LAMBDA distanceFare :
     Bind(Plus(baseFare, distanceFare), LAMBDA totalFare :
     Bind(IF passengers > 1
          THEN MathMin(Number(4, 10), Times(Number(1, 10), Number(passengers - 1, 1)))
          ELSE Zero, LAMBDA discount :
     Bind(IF passengers > 1 THEN Times(totalFare, Minus(Number(1, 1), discount))
          ELSE totalFare, LAMBDA sharedFare :
       [baseFare |-> baseFare,
        distanceFare |-> distanceFare,
        totalFare |-> totalFare,
        discount |-> Times(discount, Number(100, 1)),
        sharedFare |-> sharedFare,
        farePerPassenger |-> Over(sharedFare, Number(passengers, 1)),
        currency |-> "INR"]))))

\* createRide's calls of calculateFare, each worked out once: the fare for every
\* distance between a landmark and a destination and every passengerCount posted
Fares ==
  LET bodies == {b \in RideRequests \cup PoolRequests : "location" \in DOMAIN b.destination}
  IN [distance \in {calculateDistance(InitLandmarks[l].location,
                                      b.destination.location.coordinates) :
                      l \in LandmarkIds, b \in bodies} |->
       [passengers \in {b.passengerCount : b \in bodies} |->
         calculateFare(Number(distance, 1), passengers)]]

LogEntry(action, user) == [action |-> action, user |-> user]

\* ------------------------------------------------------------------ requests
\* One request: its inputs (op, user, rid, body), the store operation it performs
\* next (pc), its response (code, error) and what the handler keeps in local
\* variables between awaits (loc).
NoLoc == [none |-> TRUE]

NoReq ==
  [id |-> 0, op |-> "none", user |-> NoUser, rid |-> 0, body |-> NoLoc, pc |-> "idle",
   code |-> 0, error |-> "", loc |-> NoLoc]

NewReq(op, user, rid, body) ==
  [NoReq EXCEPT !.op = op, !.user = user, !.rid = rid, !.body = body, !.pc = "start"]

Fail(q, code, error) ==
  [q EXCEPT !.pc = "done", !.code = code, !.error = error, !.loc = NoLoc]
Done(q, code) == [q EXCEPT !.pc = "done", !.code = code, !.loc = NoLoc]
Goto(q, pc, loc) == [q EXCEPT !.pc = pc, !.loc = loc]

Out(db, q) == [db |-> db, q |-> q]

\* ------------------------------------------------------------------ mongoose
\* Ride.updateMany that sets logs to the one new entry instead of pushing it
UpdateManySetsLogs(db, ids, sets, log) ==
  [db EXCEPT !.rides =
    [r \in DOMAIN db.rides |->
      IF r \in ids
      THEN [f \in DOMAIN db.rides[r] |->
             IF f \in DOMAIN sets THEN sets[f]
             ELSE IF f = "logs" THEN <<log>>
             ELSE db.rides[r][f]]
      ELSE db.rides[r]]]

\* Ride.updateMany(filter, {poolId / driver, status, $push: {logs}}): every ride of
\* ids gets the fields of sets and one more log entry; the version key is untouched.
UpdateMany(db, ids, sets, log) ==
  [db EXCEPT !.rides =
    [r \in DOMAIN db.rides |->
      IF r \in ids
      THEN [f \in DOMAIN db.rides[r] |->
             IF f \in DOMAIN sets THEN sets[f]
             ELSE IF f = "logs" THEN Append(db.rides[r].logs, log)
             ELSE db.rides[r][f]]
      ELSE db.rides[r]]]

\* ride.save() that leaves out the pushed log entries
SaveRideNoLogs(db, rid, sets, logs, inc) ==
  [db EXCEPT !.rides[rid] =
    [f \in DOMAIN db.rides[rid] |->
      IF f \in DOMAIN sets THEN sets[f]
      ELSE IF f = "v" /\ inc THEN db.rides[rid].v + 1
      ELSE db.rides[rid][f]]]

\* ride.save() of a loaded document: only the modified paths are written.  sets
\* are the modified top-level paths ($set / $unset), logs the pushed log entries
\* ($push); inc says whether the update increments the version key, which
\* mongoose does for a $push unless a path inside an array element is set too.
SaveRide(db, rid, sets, logs, inc) ==
  [db EXCEPT !.rides[rid] =
    [f \in DOMAIN db.rides[rid] |->
      IF f \in DOMAIN sets THEN sets[f]
      ELSE IF f = "logs" THEN db.rides[rid].logs \o logs
      ELSE IF f = "v" /\ inc THEN db.rides[rid].v + 1
      ELSE db.rides[rid][f]]]

\* ride.save() that loses the change of the passenger entry
SavePassengerLost(db, rid, pidx, field, value) == db

\* ride.save() that pulls passengers[pidx] out of the list
SavePassengerRemoved(db, rid, pidx, field, value) ==
  [db EXCEPT !.rides[rid].passengers = SubSeq(@, 1, pidx - 1) \o SubSeq(@, pidx + 1, Len(@))]

\* ride.save() that also sets a field of passengers[pidx]: mongoose then sends the
\* update with the version the document was loaded at in its filter and does not
\* increment it; a document whose version moved on is not written (VersionError).
SavePassenger(db, rid, pidx, field, value) ==
  [db EXCEPT !.rides[rid].passengers[pidx][field] = value]

\* the modified paths when only an assignment to status marks the document
ModifiedStatusOnly(doc, new) ==
  [f \in {g \in DOMAIN new : g = "status" /\ new[g] # doc[g]} |-> new[f]]

\* the modified paths of a loaded document: the assigned fields whose value changed
Modified(doc, new) == [f \in {g \in DOMAIN new : new[g] # doc[g]} |-> new[f]]

findIndex(seq, Test(_)) ==
  IF \E i \in DOMAIN seq : Test(seq[i])
  THEN CHOOSE i \in DOMAIN seq : Test(seq[i]) /\ \A j \in 1..(i - 1) : ~Test(seq[j])
  ELSE 0

\* ------------------------------------------------------------------ createRide
PoolWindowMs == 30 * 60000
MaxPoolDistance == 3000
PoolLimit == 3

\* Ride.find without the pickupLandmark condition
IsPotentialMatchAnyLandmark(db, r, rid, poolId, body) ==
  /\ r # rid
  /\ db.rides[r].status = "pending"
  /\ db.rides[r].poolId # poolId
  /\ db.rides[r].scheduledTime >= body.scheduledTime - PoolWindowMs
  /\ db.rides[r].scheduledTime <= body.scheduledTime + PoolWindowMs
  /\ 1000 * calculateDistance(db.rides[r].destination.location.coordinates,
                             body.destination.location.coordinates) <= MaxPoolDistance

\* the filter of Ride.find in createRide, for the new ride rid / poolId and body
IsPotentialMatch(db, r, rid, poolId, body) ==
  /\ r # rid
  /\ db.rides[r].status = "pending"
  /\ db.rides[r].poolId # poolId
  /\ db.rides[r].scheduledTime >= body.scheduledTime - PoolWindowMs
  /\ db.rides[r].scheduledTime <= body.scheduledTime + PoolWindowMs
  /\ db.rides[r].pickupLandmark = body.pickupLandmarkId
  /\ 1000 * calculateDistance(db.rides[r].destination.location.coordinates,
                             body.destination.location.coordinates) <= MaxPoolDistance

\* Ride.find without limit(3)
PotentialMatchesUnlimited(db, rid, poolId, body) ==
  {{r \in RideIds(db) : IsPotentialMatch(db, r, rid, poolId, body)}}

\* $near orders by distance and limit(3) cuts: every choice of the nearest three.
PotentialMatches(db, rid, poolId, body) ==
  LET cands == {r \in RideIds(db) : IsPotentialMatch(db, r, rid, poolId, body)}
      d(r) == calculateDistance(db.rides[r].destination.location.coordinates,
                                body.destination.location.coordinates)
  IN {S \in SUBSET cands :
        /\ Cardinality(S) = Min(PoolLimit, Cardinality(cands))
        /\ \A a \in S, b \in cands \ S : d(a) <= d(b)}

\* the document Ride.create is given, for the distance and fare computed before
RideDocument(id, user, body, landmarkId, landmark, distance, fareDetails) ==
  [pickupLandmark |-> landmarkId,
   destination |-> body.destination,
   scheduledTime |-> body.scheduledTime,
   estimatedDistance |-> distance,
   estimatedDuration |-> (3 * distance + 1) \div 2,
   poolId |-> id,
   city |-> landmark.city,
   passengers |-> <<[user |-> user, fare |-> fareDetails.farePerPassenger,
                     status |-> "pending", rating |-> 0]>>,
   driver |-> NoUser,
   fare |-> [baseFare |-> fareDetails.baseFare,
             distanceFare |-> fareDetails.distanceFare,
             totalFare |-> fareDetails.totalFare,
             discount |-> fareDetails.discount,
             currency |-> fareDetails.currency],
   status |-> "pending",
   startedAt |-> FALSE,
   completedAt |-> FALSE,
   cancellationReason |-> "",
   logs |-> <<LogEntry("ride_created", user)>>,
   messages |-> <<>>,
   driverLocation |-> [coordinates |-> <<0, 0>>, lastUpdated |-> 0],
   v |-> 0]

RideFor(id, user, body, landmarkId, landmark, distance) ==
  RideDocument(id, user, body, landmarkId, landmark, distance,
               Fares[distance][body.passengerCount])

NewRide(id, user, body, landmarkId, landmark) ==
  RideFor(id, user, body, landmarkId, landmark,
          calculateDistance(landmark.location, body.destination.location.coordinates))

\* an update that also shares the fare between the two bookings of the pool
PoolUpdateSplitsFare(poolId) ==
  [poolId |-> poolId, status |-> "pooling",
   fare |-> [baseFare |-> Number(25, 1), distanceFare |-> Zero, totalFare |-> Number(25, 1),
             discount |-> Number(50, 1), currency |-> "INR"]]

PoolUpdateKeepsStatus(poolId) == [poolId |-> poolId]

\* what Ride.updateMany sets on every match: the new ride's pool and the status
PoolUpdate(poolId) == [poolId |-> poolId, status |-> "pooling"]

\* Ride.create(ride): the store with the new ride, and the handler holding its id
\* and poolId
Created(db, q, ride) ==
  Out([db EXCEPT !.rides = Append(db.rides, ride)],
      [Goto(q, "find", [poolId |-> ride.poolId]) EXCEPT !.rid = Len(db.rides) + 1])

createRideStep(db, q) ==
  CASE q.pc = "start" ->
         IF db.users[q.user].role # "passenger"
         THEN {Out(db, Fail(q, 403, "Only passengers can book rides"))}
         ELSE IF q.body.pickupLandmarkId \notin DOMAIN db.landmarks
         THEN {Out(db, Fail(q, 404, "Landmark not found"))}
         ELSE IF "location" \notin DOMAIN q.body.destination
         THEN {Out(db, Fail(q, 400, "Please provide destination coordinates"))}
         ELSE {Out(db, Goto(q, "create", NoLoc))}
    [] q.pc = "create" ->
         {Created(db, q, NewRide(Len(db.rides) + 1, q.user, q.body, q.body.pickupLandmarkId,
                                 db.landmarks[q.body.pickupLandmarkId]))}
    [] q.pc = "find" ->
         {Out(db, IF S = {} THEN Goto(q, "incLandmark", NoLoc)
                  ELSE Goto(q, "updateMany", [poolId |-> q.loc.poolId, matches |-> S])) :
            S \in PotentialMatches(db, q.rid, q.loc.poolId, q.body)}
    [] q.pc = "updateMany" ->
         {Out(UpdateMany(db, q.loc.matches, PoolUpdate(q.loc.poolId),
                         LogEntry("ride_pooled", q.user)),
              Goto(q, "save", NoLoc))}
    [] q.pc = "save" ->
         {Out(SaveRide(db, q.rid, [status |-> "pooling"], <<>>, FALSE),
              Goto(q, "incLandmark", NoLoc))}
    [] q.pc = "incLandmark" ->
         {Out([db EXCEPT !.landmarks[q.body.pickupLandmarkId].stats.pickupCount = @ + 1],
              Done(q, 201))}

\* ------------------------------------------------------------------ cancelRide
cancelRideStep(db, q) ==
  CASE q.pc = "start" ->
         IF q.body.reason = ""
         THEN {Out(db, Fail(q, 400, "Please provide a cancellation reason"))}
         ELSE IF q.rid \notin RideIds(db)
         THEN {Out(db, Fail(q, 404, "Ride not found"))}
         ELSE
           LET ride == db.rides[q.rid]
               IsUser(p) == p.user = q.user
               isPassenger == \E i \in DOMAIN ride.passengers : IsUser(ride.passengers[i])
               isDriver == ride.driver # NoUser /\ ride.driver = q.user
               isAdmin == db.users[q.user].role = "admin"
               passengerIndex == findIndex(ride.passengers, IsUser)
           IN IF ~isPassenger /\ ~isDriver /\ ~isAdmin
              THEN {Out(db, Fail(q, 403, "Not authorized to cancel this ride"))}
              ELSE IF ride.status = "completed" \/ ride.status = "cancelled"
              THEN {Out(db, Fail(q, 400, "Ride cannot be cancelled in " \o ride.status \o " status"))}
              ELSE IF isDriver
              THEN {Out(db, Goto(q, "save",
                     [sets |-> Modified(ride, [status |-> "pending", driver |-> NoUser]),
                      log |-> LogEntry("driver_cancelled", q.user),
                      pidx |-> 0, v |-> ride.v]))}
              ELSE {Out(db, Goto(q, "save",
                     [sets |-> Modified(ride, [status |-> "cancelled",
                                               cancellationReason |-> q.body.reason]),
                      log |-> LogEntry("ride_cancelled", q.user),
                      pidx |-> IF isPassenger
                                  /\ ride.passengers[passengerIndex].status # "cancelled"
                               THEN passengerIndex ELSE 0,
                      v |-> ride.v]))}
    [] q.pc = "save" ->
         IF q.loc.pidx = 0
         THEN {Out(SaveRide(db, q.rid, q.loc.sets, <<q.loc.log>>, TRUE), Done(q, 200))}
         ELSE IF db.rides[q.rid].v # q.loc.v
         THEN {Out(db, Fail(q, 500, "VersionError"))}
         ELSE {Out(SavePassenger(SaveRide(db, q.rid, q.loc.sets, <<q.loc.log>>, FALSE),
                                 q.rid, q.loc.pidx, "status", "cancelled"),
                   Done(q, 200))}

\* ------------------------------------------------------------------ acceptRide
ActiveRides(db, driver) ==
  {r \in RideIds(db) :
     db.rides[r].driver = driver /\ db.rides[r].status \in {"assigned", "started"}}

PoolSiblings(db, rid, poolId) ==
  {r \in RideIds(db) :
     db.rides[r].poolId = poolId /\ r # rid /\ db.rides[r].status = "pooling"}

\* acceptRide that assigns the driver before it counts the driver's active rides
acceptRideStepAssignsFirst(db, q) ==
  CASE q.pc = "start" ->
         IF db.users[q.user].role # "driver"
         THEN {Out(db, Fail(q, 403, "Only drivers can accept rides"))}
         ELSE IF ~db.users[q.user].driverDetails.isVerified
         THEN {Out(db, Fail(q, 403, "Driver account is not verified"))}
         ELSE {Out(db, Goto(q, "findRide", NoLoc))}
    [] q.pc = "findRide" ->
         IF q.rid \notin RideIds(db)
         THEN {Out(db, Fail(q, 404, "Ride not found"))}
         ELSE
           LET ride == db.rides[q.rid]
           IN IF ride.status # "pending" /\ ride.status # "pooling"
              THEN {Out(db, Fail(q, 400, "Ride cannot be accepted in " \o ride.status \o " status"))}
              ELSE {Out(db, Goto(q, "count",
                     [sets |-> Modified(ride, [driver |-> q.user, status |-> "assigned"]),
                      poolId |-> ride.poolId]))}
    [] q.pc = "count" ->
         IF Cardinality(ActiveRides(db, q.user)) > 0
         THEN {Out(SaveRide(db, q.rid, q.loc.sets, <<>>, TRUE),
                   Fail(q, 400, "Driver already has an active ride"))}
         ELSE {Out(db, Goto(q, "updateMany", q.loc))}
    [] q.pc = "updateMany" ->
         {Out(UpdateMany(db, PoolSiblings(db, q.rid, q.loc.poolId),
                         [driver |-> q.user, status |-> "assigned"],
                         LogEntry("driver_assigned", q.user)),
              Goto(q, "save", q.loc))}
    [] q.pc = "save" ->
         {Out(SaveRide(db, q.rid, q.loc.sets, <<LogEntry("driver_assigned", q.user)>>, TRUE),
              Done(q, 200))}

acceptRideStep(db, q) ==
  CASE q.pc = "start" ->
         IF db.users[q.user].role # "driver"
         THEN {Out(db, Fail(q, 403, "Only drivers can accept rides"))}
         ELSE IF ~db.users[q.user].driverDetails.isVerified
         THEN {Out(db, Fail(q, 403, "Driver account is not verified"))}
         ELSE {Out(db, Goto(q, "findRide", NoLoc))}
    [] q.pc = "findRide" ->
         IF q.rid \notin RideIds(db)
         THEN {Out(db, Fail(q, 404, "Ride not found"))}
         ELSE
           LET ride == db.rides[q.rid]
           IN IF ride.status # "pending" /\ ride.status # "pooling"
              THEN {Out(db, Fail(q, 400, "Ride cannot be accepted in " \o ride.status \o " status"))}
              ELSE {Out(db, Goto(q, "count",
                     [sets |-> Modified(ride, [driver |-> q.user, status |-> "assigned"]),
                      poolId |-> ride.poolId]))}
    [] q.pc = "count" ->
         IF Cardinality(ActiveRides(db, q.user)) > 0
         THEN {Out(db, Fail(q, 400, "Driver already has an active ride"))}
         ELSE {Out(db, Goto(q, "updateMany", q.loc))}
    [] q.pc = "updateMany" ->
         {Out(UpdateMany(db, PoolSiblings(db, q.rid, q.loc.poolId),
                         [driver |-> q.user, status |-> "assigned"],
                         LogEntry("driver_assigned", q.user)),
              Goto(q, "save", q.loc))}
    [] q.pc = "save" ->
         {Out(SaveRide(db, q.rid, q.loc.sets, <<LogEntry("driver_assigned", q.user)>>, TRUE),
              Done(q, 200))}

\* ------------------------------------------------------------------ startRide
startRideStep(db, q) ==
  CASE q.pc = "start" ->
         IF q.rid \notin RideIds(db)
         THEN {Out(db, Fail(q, 404, "Ride not found"))}
         ELSE
           LET ride == db.rides[q.rid]
           IN IF ride.driver = NoUser \/ ride.driver # q.user
              THEN {Out(db, Fail(q, 403, "Not authorized to start this ride"))}
              ELSE IF ride.status # "assigned"
              THEN {Out(db, Fail(q, 400, "Ride cannot be started in " \o ride.status \o " status"))}
              ELSE {Out(db, Goto(q, "save",
                     [sets |-> Modified(ride, [status |-> "started", startedAt |-> TRUE])]))}
    [] q.pc = "save" ->
         {Out(SaveRide(db, q.rid, q.loc.sets, <<LogEntry("ride_started", q.user)>>, TRUE),
              Done(q, 200))}

\* ------------------------------------------------------------------ completeRide
RECURSIVE SelectSeq2(_, _)
\* the passengers, in order, whose entry has the given status
SelectSeq2(ps, status) ==
  IF ps = <<>> THEN <<>>
  ELSE (IF Head(ps).status = status THEN <<Head(ps).user>> ELSE <<>>)
       \o SelectSeq2(Tail(ps), status)

\* ride.passengers.forEach: a confirmed passenger becomes completed
CompletePassengers(ps) ==
  [i \in DOMAIN ps |->
    IF ps[i].status = "confirmed" THEN [ps[i] EXCEPT !.status = "completed"] ELSE ps[i]]

completeRideStep(db, q) ==
  CASE q.pc = "start" ->
         IF q.rid \notin RideIds(db)
         THEN {Out(db, Fail(q, 404, "Ride not found"))}
         ELSE
           LET ride == db.rides[q.rid]
               passengers == CompletePassengers(ride.passengers)
           IN IF ride.driver = NoUser \/ ride.driver # q.user
              THEN {Out(db, Fail(q, 403, "Not authorized to complete this ride"))}
              ELSE IF ride.status # "started"
              THEN {Out(db, Fail(q, 400, "Ride cannot be completed in " \o ride.status \o " status"))}
              ELSE {Out(db, Goto(q, "save",
                     [sets |-> Modified(ride, [status |-> "completed", completedAt |-> TRUE]),
                      confirmed |-> {i \in DOMAIN ride.passengers :
                                       ride.passengers[i].status = "confirmed"},
                      completed |-> SelectSeq2(passengers, "completed"),
                      v |-> ride.v,
                      estimatedDistance |-> ride.estimatedDistance,
                      totalFare |-> ride.fare.totalFare,
                      city |-> ride.city]))}
    [] q.pc = "save" ->
         IF q.loc.confirmed = {}
         THEN {Out(SaveRide(db, q.rid, q.loc.sets, <<LogEntry("ride_completed", q.user)>>, TRUE),
                   Goto(q, "incDriver", q.loc))}
         ELSE IF db.rides[q.rid].v # q.loc.v
         THEN {Out(db, Fail(q, 500, "VersionError"))}
         ELSE
           LET saved == SaveRide(db, q.rid, q.loc.sets,
                                 <<LogEntry("ride_completed", q.user)>>, FALSE)
           IN {Out([saved EXCEPT !.rides[q.rid].passengers =
                      [i \in DOMAIN @ |->
                        IF i \in q.loc.confirmed THEN [@[i] EXCEPT !.status = "completed"]
                        ELSE @[i]]],
                   Goto(q, "incDriver", q.loc))}
    [] q.pc = "incDriver" ->
         {Out([db EXCEPT !.users[q.user].stats =
                 [ridesCompleted |-> @.ridesCompleted + 1,
                  totalDistance |-> @.totalDistance + q.loc.estimatedDistance,
                  totalEarnings |-> Plus(@.totalEarnings, q.loc.totalFare)]],
              IF q.loc.completed = <<>> THEN Goto(q, "incCity", q.loc)
              ELSE Goto(q, "incPassenger", q.loc))}
    [] q.pc = "incPassenger" ->
         LET passenger == Head(q.loc.completed)
             rest == [q.loc EXCEPT !.completed = Tail(@)]
         IN {Out([db EXCEPT !.users[passenger].stats.ridesCompleted = @ + 1,
                            !.users[passenger].stats.totalDistance =
                               @ + q.loc.estimatedDistance],
                 IF rest.completed = <<>> THEN Goto(q, "incCity", rest)
                 ELSE Goto(q, "incPassenger", rest))}
    [] q.pc = "incCity" ->
         {Out([db EXCEPT !.cities[q.loc.city].stats =
                 [totalRides |-> @.totalRides + 1,
                  totalRevenue |-> Plus(@.totalRevenue, q.loc.totalFare)]],
              Done(q, 200))}

\* ------------------------------------------------------------------ rateRide
rateRideStep(db, q) ==
  CASE q.pc = "start" ->
         IF q.body.rating = 0 \/ q.body.rating < 1 \/ q.body.rating > 5
         THEN {Out(db, Fail(q, 400, "Please provide a valid rating between 1 and 5"))}
         ELSE IF q.rid \notin RideIds(db)
         THEN {Out(db, Fail(q, 404, "Ride not found"))}
         ELSE
           LET ride == db.rides[q.rid]
               IsCompletedUser(p) == p.user = q.user /\ p.status = "completed"
               passengerIndex == findIndex(ride.passengers, IsCompletedUser)
           IN IF ride.status # "completed"
              THEN {Out(db, Fail(q, 400, "Cannot rate a ride that is not completed"))}
              ELSE IF passengerIndex = 0
              THEN {Out(db, Fail(q, 403, "Not authorized to rate this ride"))}
              ELSE IF ride.passengers[passengerIndex].rating # 0
              THEN {Out(db, Fail(q, 400, "You have already rated this ride"))}
              ELSE {Out(db, Goto(q, "save",
                     [pidx |-> passengerIndex, v |-> ride.v, driver |-> ride.driver]))}
    [] q.pc = "save" ->
         IF db.rides[q.rid].v # q.loc.v
         THEN {Out(db, Fail(q, 500, "VersionError"))}
         ELSE {Out(SavePassenger(SaveRide(db, q.rid, NoLoc,
                                          <<LogEntry("ride_rated", q.user)>>, FALSE),
                                 q.rid, q.loc.pidx, "rating", q.body.rating),
                   Goto(q, "findDriver", q.loc))}
    [] q.pc = "findDriver" ->
         IF q.loc.driver \notin DOMAIN db.users
         THEN {Out(db, Fail(q, 500, "TypeError"))}
         ELSE
           LET driver == db.users[q.loc.driver]
               newRatingCount == driver.rating.count + 1
               newRatingAverage ==
                 Over(Plus(Times(driver.rating.average, Number(driver.rating.count, 1)),
                           Number(q.body.rating, 1)),
                      Number(newRatingCount, 1))
           IN {Out(db, Goto(q, "updateDriver",
                  [driver |-> q.loc.driver,
                   rating |-> [average |-> newRatingAverage, count |-> newRatingCount]]))}
    [] q.pc = "updateDriver" ->
         {Out([db EXCEPT !.users[q.loc.driver].rating = q.loc.rating], Done(q, 200))}

\* ------------------------------------------------------------------ addMessage
\* ride.save() after ride.messages.push(message): one $push, which increments the
\* version key
PushMessage(db, rid, message) ==
  [db EXCEPT !.rides[rid].messages = Append(@, message), !.rides[rid].v = @ + 1]

addMessageStep(db, q) ==
  CASE q.pc = "start" ->
         IF q.body.text = ""
         THEN {Out(db, Fail(q, 400, "Please provide a message text"))}
         ELSE IF q.rid \notin RideIds(db)
         THEN {Out(db, Fail(q, 404, "Ride not found"))}
         ELSE
           LET ride == db.rides[q.rid]
               isPassenger == \E i \in DOMAIN ride.passengers : ride.passengers[i].user = q.user
               isDriver == ride.driver # NoUser /\ ride.driver = q.user
               isAdmin == db.users[q.user].role = "admin"
           IN IF ~isPassenger /\ ~isDriver /\ ~isAdmin
              THEN {Out(db, Fail(q, 403, "Not authorized to send message in this ride"))}
              ELSE {Out(db, Goto(q, "save", NoLoc))}
    [] q.pc = "save" ->
         {Out(PushMessage(db, q.rid, [sender |-> q.user, text |-> q.body.text]),
              Done(q, 201))}

\* ------------------------------------------------------------------ updateDriverLocation
\* the readings of Date.now() a location update may be stamped with; a new ride's
\* driverLocation carries the schema defaults, written here as time 0
Clock == {1, 2}

\* ride.save() after ride.driverLocation = {...}: one $set of the path
SetDriverLocation(db, rid, location) ==
  [db EXCEPT !.rides[rid].driverLocation = location]

updateDriverLocationStep(db, q) ==
  CASE q.pc = "start" ->
         IF q.body.lat = 0 \/ q.body.lng = 0
         THEN {Out(db, Fail(q, 400, "Please provide latitude and longitude"))}
         ELSE IF q.rid \notin RideIds(db)
         THEN {Out(db, Fail(q, 404, "Ride not found"))}
         ELSE
           LET ride == db.rides[q.rid]
           IN IF ride.driver = NoUser \/ ride.driver # q.user
              THEN {Out(db, Fail(q, 403, "Not authorized to update location for this ride"))}
              ELSE IF ride.status # "assigned" /\ ride.status # "started"
              THEN {Out(db, Fail(q, 400, "Cannot update location for this ride"))}
              ELSE {Out(db, Goto(q, "save", NoLoc))}
    [] q.pc = "save" ->
         {Out(SetDriverLocation(db, q.rid,
                [coordinates |-> <<q.body.lng, q.body.lat>>, lastUpdated |-> now]),
              Done(q, 200)) : now \in Clock}

\* ------------------------------------------------------------------ admin
\* Model.findByIdAndUpdate(id, req.body): the top-level paths of the body are set
findByIdAndUpdate(doc, body) ==
  [f \in DOMAIN doc |-> IF f \in DOMAIN body THEN body[f] ELSE doc[f]]

\* PUT /api/users/:id
updateUserStep(db, q) ==
  IF q.body.id \notin DOMAIN db.users
  THEN {Out(db, Fail(q, 404, "User not found"))}
  ELSE {Out([db EXCEPT !.users[q.body.id] = findByIdAndUpdate(@, q.body.update)],
            Done(q, 200))}

\* PUT /api/cities/:id
updateCityStep(db, q) ==
  IF q.body.id \notin DOMAIN db.cities
  THEN {Out(db, Fail(q, 404, "City not found"))}
  ELSE {Out([db EXCEPT !.cities[q.body.id] = findByIdAndUpdate(@, q.body.update)],
            Done(q, 200))}

\* PUT /api/landmarks/:id
updateLandmarkStep(db, q) ==
  IF q.body.id \notin DOMAIN db.landmarks
  THEN {Out(db, Fail(q, 404, "Landmark not found"))}
  ELSE IF /\ "city" \in DOMAIN q.body.update
          /\ q.body.update.city # db.landmarks[q.body.id].city
          /\ q.body.update.city \notin DOMAIN db.cities
  THEN {Out(db, Fail(q, 404, "City not found"))}
  ELSE {Out([db EXCEPT !.landmarks[q.body.id] = findByIdAndUpdate(@, q.body.update)],
            Done(q, 200))}

\* ------------------------------------------------------------------ drivers
\* User.findByIdAndUpdate(id, {'driverDetails.<path>': value, ...}): the named
\* paths of driverDetails are set, the other paths keep their value
SetDriverDetails(details, fields) ==
  [f \in DOMAIN details \cup DOMAIN fields |->
    IF f \in DOMAIN fields THEN fields[f] ELSE details[f]]

\* submitVerification that leaves isVerified as it is
submitVerificationStepKeepsVerified(db, q) ==
  IF \/ q.body.licenseNumber = "" \/ q.body.licenseExpiry = 0
     \/ q.body.vehicleNumber = "" \/ q.body.vehicleModel = ""
     \/ q.body.vehicleColor = "" \/ q.body.vehicleYear = 0
  THEN {Out(db, Fail(q, 400, "Please provide all required fields"))}
  ELSE IF db.users[q.user].role # "driver"
  THEN {Out(db, Fail(q, 403, "Only drivers can submit verification"))}
  ELSE {Out([db EXCEPT !.users[q.user].driverDetails =
               SetDriverDetails(@, [licenseNumber |-> q.body.licenseNumber,
                                    licenseExpiry |-> q.body.licenseExpiry,
                                    vehicleNumber |-> q.body.vehicleNumber,
                                    vehicleModel |-> q.body.vehicleModel,
                                    vehicleColor |-> q.body.vehicleColor,
                                    vehicleYear |-> q.body.vehicleYear])],
            Done(q, 200))}

\* POST /api/drivers/verify.  A date is its number of milliseconds and the year
\* arrives as a whole number, which new Date and parseInt keep.
submitVerificationStep(db, q) ==
  IF \/ q.body.licenseNumber = "" \/ q.body.licenseExpiry = 0
     \/ q.body.vehicleNumber = "" \/ q.body.vehicleModel = ""
     \/ q.body.vehicleColor = "" \/ q.body.vehicleYear = 0
  THEN {Out(db, Fail(q, 400, "Please provide all required fields"))}
  ELSE IF db.users[q.user].role # "driver"
  THEN {Out(db, Fail(q, 403, "Only drivers can submit verification"))}
  ELSE {Out([db EXCEPT !.users[q.user].driverDetails =
               SetDriverDetails(@, [licenseNumber |-> q.body.licenseNumber,
                                    licenseExpiry |-> q.body.licenseExpiry,
                                    vehicleNumber |-> q.body.vehicleNumber,
                                    vehicleModel |-> q.body.vehicleModel,
                                    vehicleColor |-> q.body.vehicleColor,
                                    vehicleYear |-> q.body.vehicleYear,
                                    isVerified |-> FALSE])],
            Done(q, 200))}

\* PUT /api/drivers/:id/approve
approveDriverStep(db, q) ==
  CASE q.pc = "start" ->
         IF db.users[q.user].role # "admin"
         THEN {Out(db, Fail(q, 403, "Only admins can approve drivers"))}
         ELSE IF q.body.id \notin DOMAIN db.users
         THEN {Out(db, Fail(q, 404, "Driver not found"))}
         ELSE IF db.users[q.body.id].role # "driver"
         THEN {Out(db, Fail(q, 404, "Driver not found"))}
         ELSE {Out(db, Goto(q, "save", NoLoc))}
    [] q.pc = "save" ->
         {Out([db EXCEPT !.users[q.body.id].driverDetails.isVerified = TRUE],
              Done(q, 200))}

\* ------------------------------------------------------------------ handlers
Ops ==
  {"createRide", "cancelRide", "acceptRide", "startRide", "completeRide", "rateRide",
   "addMessage", "updateDriverLocation", "updateUser", "updateCity", "updateLandmark",
   "submitVerification", "approveDriver"}

\* router.route(...).put(authorize(role), handler): the roles a route lets through
authorize(op) ==
  CASE op \in {"createRide", "rateRide"} -> {"passenger"}
    [] op \in {"acceptRide", "startRide", "completeRide", "updateDriverLocation",
               "submitVerification"} -> {"driver"}
    [] op \in {"updateUser", "updateCity", "updateLandmark", "approveDriver"} -> {"admin"}
    [] OTHER -> {"passenger", "driver", "admin"}

\* the outcomes of the next step of request q
Step(db, q) ==
  CASE q.pc = "start" /\ db.users[q.user].role \notin authorize(q.op) ->
         {Out(db, Fail(q, 403, "User role is not authorized to access this route"))}
    [] q.op = "createRide" -> createRideStep(db, q)
    [] q.op = "cancelRide" -> cancelRideStep(db, q)
    [] q.op = "acceptRide" -> acceptRideStep(db, q)
    [] q.op = "startRide" -> startRideStep(db, q)
    [] q.op = "completeRide" -> completeRideStep(db, q)
    [] q.op = "rateRide" -> rateRideStep(db, q)
    [] q.op = "addMessage" -> addMessageStep(db, q)
    [] q.op = "updateDriverLocation" -> updateDriverLocationStep(db, q)
    [] q.op = "updateUser" -> updateUserStep(db, q)
    [] q.op = "updateCity" -> updateCityStep(db, q)
    [] q.op = "updateLandmark" -> updateLandmarkStep(db, q)
    [] q.op = "submitVerification" -> submitVerificationStep(db, q)
    [] q.op = "approveDriver" -> approveDriverStep(db, q)

RECURSIVE Run(_, _)
\* the outcomes of request q run to its response with no other request in between
Run(db, q) ==
  IF q.pc = "done" THEN {Out(db, q)}
  ELSE UNION {Run(o.db, o.q) : o \in Step(db, q)}

\* the requests a client may send
Requests ==
  {NewReq("createRide", u, 0, b) : u \in UserIds, b \in RideRequests}
  \cup {NewReq("cancelRide", u, r, [reason |-> x]) :
          u \in UserIds, r \in 1..MaxRides, x \in Reasons}
  \cup {NewReq(op, u, r, NoLoc) :
          op \in {"acceptRide", "startRide", "completeRide"},
          u \in UserIds, r \in 1..MaxRides}
  \cup {NewReq("rateRide", u, r, [rating |-> x]) :
          u \in UserIds, r \in 1..MaxRides, x \in Ratings}

\* ------------------------------------------------------------------ Spec
\* the last request that was answered with success
Response(q) == [op |-> q.op, user |-> q.user, rid |-> q.rid, code |-> q.code]

Commit(db) ==
  /\ rides' = db.rides
  /\ users' = db.users
  /\ landmarks' = db.landmarks
  /\ cities' = db.cities

Init ==
  /\ rides = <<>>
  /\ users = InitUsers
  /\ landmarks = InitLandmarks
  /\ cities = InitCities
  /\ resp = Response(NoReq)
  /\ served = 0
  /\ inflight = {}

\* Request q is handled from its arrival to its response.  A request that an early
\* return answers with an error changes nothing: it is not a step.
Handle(q) ==
  /\ served < MaxOps
  /\ \E o \in Run(DB, q) :
       /\ o.q.code < 400
       /\ Commit(o.db)
       /\ resp' = Response(o.q)
  /\ served' = served + 1
  /\ UNCHANGED inflight

CreateRide(q) == Len(rides) < MaxRides /\ Handle(q)

CancelRide(q) == Handle(q)

AcceptRide(q) == Handle(q)

StartRide(q) == Handle(q)

CompleteRide(q) == Handle(q)

\* No passenger entry ever gets the status rateRide asks for, so rateRide never
\* answers with success: this action is never enabled.
RateRide(q) == Handle(q)

\* the router: one request is dispatched to its handler
Next ==
  \E q \in Requests :
    CASE q.op = "createRide" -> CreateRide(q)
      [] q.op = "cancelRide" -> CancelRide(q)
      [] q.op = "acceptRide" -> AcceptRide(q)
      [] q.op = "startRide" -> StartRide(q)
      [] q.op = "completeRide" -> CompleteRide(q)
      [] q.op = "rateRide" -> RateRide(q)

Spec == Init /\ [][Next]_vars

\* ------------------------------------------------------------------ SpecConc
MaxInflight == 2

\* rides that requests in flight are still to create
Creating == {q \in inflight : q.op = "createRide" /\ q.pc = "create"}

\* A request arrives and performs its first store operation.  A request that this
\* first step already rejects has touched nothing and is not tracked.
Arrive ==
  /\ served < MaxConcRequests
  /\ Cardinality(inflight) < MaxInflight
  /\ \E q \in Requests :
       /\ q.op = "createRide" => Len(rides) + Cardinality(Creating) < MaxRides
       /\ \E o \in Step(DB, [q EXCEPT !.id = served + 1]) :
            /\ o.q.pc # "done"
            /\ Commit(o.db)
            /\ inflight' = inflight \cup {o.q}
  /\ served' = served + 1
  /\ UNCHANGED resp

\* A request in flight performs its next store operation.
Proceed ==
  /\ \E q \in inflight :
       /\ q.pc # "done"
       /\ \E o \in Step(DB, q) :
            /\ Commit(o.db)
            /\ inflight' = (inflight \ {q}) \cup {o.q}
  /\ UNCHANGED <<resp, served>>

\* The response of a finished request is sent.
Respond ==
  /\ \E q \in inflight :
       /\ q.pc = "done"
       /\ inflight' = inflight \ {q}
       /\ resp' = IF q.code < 400 THEN Response(q) ELSE resp
  /\ UNCHANGED <<rides, users, landmarks, cities, served>>

NextConc ==
  \/ Arrive
  \/ Proceed
  \/ Respond

SpecConc == Init /\ [][NextConc]_vars

\* ------------------------------------------------------------------ SpecPool
\* The pooling engine alone: one passenger books ride after ride.
\* rides that can exist in a behaviour of SpecPool
MaxPoolRides == 5

BookRide ==
  /\ Len(rides) < MaxPoolRides
  /\ \E b \in PoolRequests :
       \E o \in Run(DB, NewReq("createRide", "p1", 0, b)) :
         /\ o.q.code < 400
         /\ Commit(o.db)
         /\ resp' = Response(o.q)
  /\ UNCHANGED <<served, inflight>>

NextPool == BookRide

SpecPool == Init /\ [][NextPool]_vars

\* ------------------------------------------------------------------ SpecAdmin
\* The ride routes together with the admin routes that write users, cities and
\* landmarks.
\* the bodies an admin may put to /api/users/:id
UserUpdates ==
  { [id |-> u,
     update |-> [stats |-> [ridesCompleted |-> 0, totalDistance |-> 0,
                            totalEarnings |-> Zero]]] : u \in UserIds \cup {"nobody"} }

\* the bodies an admin may put to /api/cities/:id
CityUpdates ==
  { [id |-> c, update |-> [stats |-> [totalRides |-> 0, totalRevenue |-> Zero]]] :
      c \in {"C1", "C2", "C9"} }

\* the bodies an admin may put to /api/landmarks/:id
LandmarkUpdates ==
  { [id |-> l, update |-> [stats |-> [pickupCount |-> 0]]] : l \in {"L1", "L2", "L9"} }
  \cup { [id |-> "L1", update |-> [city |-> "C9"]] }

UpdateUser ==
  /\ served < MaxOps
  /\ \E u \in UserIds, b \in UserUpdates : Handle(NewReq("updateUser", u, 0, b))

UpdateCity ==
  /\ served < MaxOps
  /\ \E u \in UserIds, b \in CityUpdates : Handle(NewReq("updateCity", u, 0, b))

UpdateLandmark ==
  /\ served < MaxOps
  /\ \E u \in UserIds, b \in LandmarkUpdates : Handle(NewReq("updateLandmark", u, 0, b))

NextAdmin ==
  \/ Next
  \/ UpdateUser
  \/ UpdateCity
  \/ UpdateLandmark

SpecAdmin == Init /\ [][NextAdmin]_vars

\* ------------------------------------------------------------------ SpecRoutes
\* Every route of /api/rides that writes, interleaved at the awaits as in SpecConc.
\* requests that can arrive in a behaviour of SpecRoutes
MaxRouteRequests == 4

\* the bodies of POST /api/rides/:id/messages
Texts == {"", "hi"}

\* the bodies of PUT /api/rides/:id/location
Locations == {[lat |-> 0, lng |-> 1], [lat |-> 1, lng |-> 2]}

RouteRequests ==
  Requests
  \cup {NewReq("addMessage", u, r, [text |-> x]) :
          u \in UserIds, r \in 1..MaxRides, x \in Texts}
  \cup {NewReq("updateDriverLocation", u, r, b) :
          u \in UserIds, r \in 1..MaxRides, b \in Locations}

\* A request to any route arrives and performs its first store operation.
ArriveRoute ==
  /\ served < MaxRouteRequests
  /\ Cardinality(inflight) < MaxInflight
  /\ \E q \in RouteRequests :
       /\ q.op = "createRide" => Len(rides) + Cardinality(Creating) < MaxRides
       /\ \E o \in Step(DB, [q EXCEPT !.id = served + 1]) :
            /\ o.q.pc # "done"
            /\ Commit(o.db)
            /\ inflight' = inflight \cup {o.q}
  /\ served' = served + 1
  /\ UNCHANGED resp

NextRoutes ==
  \/ ArriveRoute
  \/ Proceed
  \/ Respond

SpecRoutes == Init /\ [][NextRoutes]_vars

\* ------------------------------------------------------------------ SpecBurst
\* The ride routes where the requests of the driver application overlap: a request
\* to acceptRide, startRide or completeRide is interleaved at its awaits with the
\* other such requests in flight, and every other request runs alone from its
\* arrival to its response.
DriverRequests == {q \in Requests : q.op \in {"acceptRide", "startRide", "completeRide"}}

ArriveBurst ==
  /\ served < MaxOps
  /\ Cardinality(inflight) < MaxInflight
  /\ \E q \in DriverRequests :
       \E o \in Step(DB, [q EXCEPT !.id = served + 1]) :
         /\ o.q.pc # "done"
         /\ Commit(o.db)
         /\ inflight' = inflight \cup {o.q}
  /\ served' = served + 1
  /\ UNCHANGED resp

\* a request that runs alone while no request is in flight
Alone ==
  /\ inflight = {}
  /\ Next

NextBurst ==
  \/ Alone
  \/ ArriveBurst
  \/ Proceed
  \/ Respond

SpecBurst == Init /\ [][NextBurst]_vars

\* ------------------------------------------------------------------ SpecGuards
\* The ride routes one request at a time, as in Spec, up to the states in which
\* every guard of every handler can be met by the next request.
Serve ==
  /\ served < MaxGuardOps
  /\ Next

NextGuards == Serve

SpecGuards == Init /\ [][NextGuards]_vars

\* ------------------------------------------------------------------ SpecDrivers
\* The ride routes together with the driver routes that write isVerified.
\* the bodies a driver may post to /api/drivers/verify
Verifications ==
  { [licenseNumber |-> n, licenseExpiry |-> 1, vehicleNumber |-> "V1",
     vehicleModel |-> "M", vehicleColor |-> "red", vehicleYear |-> 2020] :
      n \in {"", "DL1"} }

SubmitVerification ==
  /\ served < MaxOps
  /\ \E u \in UserIds, b \in Verifications : Handle(NewReq("submitVerification", u, 0, b))

ApproveDriver ==
  /\ served < MaxOps
  /\ \E u \in UserIds, d \in UserIds \cup {"nobody"} :
       Handle(NewReq("approveDriver", u, 0, [id |-> d]))

NextDrivers ==
  \/ Next
  \/ SubmitVerification
  \/ ApproveDriver

SpecDrivers == Init /\ [][NextDrivers]_vars

\* ------------------------------------------------------------------ SpecFare
\* calculateFare on its own: a call with a distance and a passenger count, then
\* what it returns.  A distance is written in tenths of a kilometre.
FareCall(tenths, passengers) ==
  [op |-> "calculateFare", tenths |-> tenths, passengers |-> passengers,
   returned |-> FALSE, fare |-> NoLoc]

InitFare ==
  /\ rides = <<>>
  /\ users = InitUsers
  /\ landmarks = InitLandmarks
  /\ cities = InitCities
  /\ \E tenths \in 0..MaxTenths, passengers \in 1..MaxPassengers :
       resp = FareCall(tenths, passengers)
  /\ served = 0
  /\ inflight = {}

CalculateFare ==
  /\ ~resp.returned
  /\ resp' = [resp EXCEPT !.returned = TRUE,
                          !.fare = calculateFare(Number(resp.tenths, 10), resp.passengers)]
  /\ UNCHANGED <<rides, users, landmarks, cities, served, inflight>>

NextFare == CalculateFare

SpecFare == InitFare /\ [][NextFare]_vars

\* ------------------------------------------------------------------ claims
Active(ride) == ride.status \in {"assigned", "started"}

\* C1: two different drivers never both get a success response for acceptRide on
\* the same ride while both requests are in flight: one of the two accepts fails.
C1_OneAcceptWins ==
  \A q1 \in inflight, q2 \in inflight :
    (/\ q1.op = "acceptRide" /\ q2.op = "acceptRide"
     /\ q1.rid = q2.rid /\ q1.user # q2.user
     /\ q1.pc = "done" /\ q2.pc = "done")
    => ~(q1.code = 200 /\ q2.code = 200)

\* C2: two rides of one pool that both have a driver and are assigned or started
\* have the same driver.
C2_PoolSharesDriver ==
  \A r1 \in DOMAIN rides, r2 \in DOMAIN rides :
    (/\ rides[r1].poolId = rides[r2].poolId
     /\ rides[r1].driver # NoUser /\ rides[r2].driver # NoUser
     /\ Active(rides[r1]) /\ Active(rides[r2]))
    => rides[r1].driver = rides[r2].driver

\* C3: no step takes a started or completed ride to cancelled.
C3_NoCancelAfterStart ==
  [][\A r \in DOMAIN rides :
       rides[r].status \in {"started", "completed"} => rides'[r].status # "cancelled"]_vars

LifecycleOrder == <<"pending", "pooling", "assigned", "started", "completed">>

Position(status) == CHOOSE i \in DOMAIN LifecycleOrder : LifecycleOrder[i] = status

Ordered(status) == \E i \in DOMAIN LifecycleOrder : LifecycleOrder[i] = status

\* C4: a step that lowers a ride's position in pending, pooling, assigned, started,
\* completed takes it from assigned to pending; a started ride never goes back.
C4_OnlyAssignedGoesBack ==
  [][\A r \in DOMAIN rides :
       (/\ Ordered(rides[r].status) /\ Ordered(rides'[r].status)
        /\ Position(rides'[r].status) < Position(rides[r].status))
       => (rides[r].status = "assigned" /\ rides'[r].status = "pending")]_vars

\* C5: the step that completes a started ride leaves every passenger entry that was
\* not cancelled with status completed and adds exactly 1 to that passenger's
\* stats.ridesCompleted.
C5_CompletePassengers ==
  [][\A r \in DOMAIN rides :
       (rides[r].status = "started" /\ rides'[r].status = "completed")
       => \A i \in DOMAIN rides[r].passengers :
            rides[r].passengers[i].status # "cancelled"
            => /\ rides'[r].passengers[i].status = "completed"
               /\ users'[rides[r].passengers[i].user].stats.ridesCompleted
                    = users[rides[r].passengers[i].user].stats.ridesCompleted + 1]_vars

\* C6: on a completed ride nobody cancelled, the first rateRide of the passenger who
\* booked it, with a rating in 1..5, is answered with success and stores the rating
\* on that passenger's entry.
C6_RatingReachable ==
  \A r \in DOMAIN rides, x \in 1..5 :
    (/\ rides[r].status = "completed"
     /\ rides[r].passengers[1].status # "cancelled"
     /\ rides[r].passengers[1].rating = 0)
    => \A o \in Run(DB, NewReq("rateRide", rides[r].passengers[1].user, r, [rating |-> x])) :
         /\ o.q.code = 200
         /\ o.db.rides[r].passengers[1].rating = x

\* C7: once a ride is completed or cancelled, no step changes its status or poolId.
C7_TerminalAbsorbing ==
  [][\A r \in DOMAIN rides :
       rides[r].status \in {"completed", "cancelled"}
       => /\ rides'[r].status = rides[r].status
          /\ rides'[r].poolId = rides[r].poolId]_vars

\* C8: a ride that is pending or pooling has no driver.
C8_NoDriverBeforeAssigned ==
  \A r \in DOMAIN rides :
    rides[r].status \in {"pending", "pooling"} => rides[r].driver = NoUser

\* the rides a new ride matches: pending, same pickup landmark, scheduled within 30
\* minutes of it and with a destination within 3 km of its destination
MatchedBy(new) ==
  {r \in DOMAIN rides :
     /\ rides[r].status = "pending"
     /\ rides[r].pickupLandmark = new.pickupLandmark
     /\ Abs(rides[r].scheduledTime - new.scheduledTime) <= 30 * 60 * 1000
     /\ Abs(rides[r].destination.location.coordinates
              - new.destination.location.coordinates) <= 3}

\* C9: a createRide that finds matching candidates leaves the new ride pooling and
\* every candidate it found (all of them, up to three) pooling in the new ride's pool.
C9_CreatePools ==
  [][Len(rides') = Len(rides) + 1
     => LET new == rides'[Len(rides')]
            pooled == {r \in MatchedBy(new) :
                         /\ rides'[r].status = "pooling"
                         /\ rides'[r].poolId = new.poolId}
        IN MatchedBy(new) # {}
           => /\ new.status = "pooling"
              /\ Cardinality(pooled) = Min(3, Cardinality(MatchedBy(new)))]_vars

\* C9 witness: the last request was a createRide whose ride is pooling together with
\* an older ride that its merge moved into its pool.
C9_Witness ==
  /\ resp.op = "createRide"
  /\ rides[resp.rid].status = "pooling"
  /\ \E r \in DOMAIN rides :
       /\ r < resp.rid
       /\ rides[r].status = "pooling"
       /\ rides[r].poolId = rides[resp.rid].poolId
       /\ rides[r].logs[Len(rides[r].logs)].action = "ride_pooled"

\* C10: every pooling ride shares its poolId with another ride.
C10_PoolingHasSibling ==
  \A r \in DOMAIN rides :
    rides[r].status = "pooling"
    => \E r2 \in DOMAIN rides : r2 # r /\ rides[r2].poolId = rides[r].poolId

\* C11: a createRide changes the poolId or status of at most 3 other rides; when 4
\* or more pending rides match the new ride, exactly 3 of them are merged into its
\* pool and every other one stays pending in its own pool.
C11_AtMostThreeMerged ==
  [][Len(rides') = Len(rides) + 1
     => LET new == rides'[Len(rides')]
            changed == {r \in DOMAIN rides :
                          \/ rides'[r].poolId # rides[r].poolId
                          \/ rides'[r].status # rides[r].status}
        IN /\ Cardinality(changed) <= 3
           /\ Cardinality(MatchedBy(new)) >= 4
              => /\ Cardinality(changed) = 3
                 /\ changed \subseteq MatchedBy(new)
                 /\ \A r \in changed :
                      rides'[r].poolId = new.poolId /\ rides'[r].status = "pooling"
                 /\ \A r \in MatchedBy(new) \ changed :
                      /\ rides'[r].status = "pending"
                      /\ rides'[r].poolId = rides[r].poolId]_vars

\* C11 witness: the last booking pooled three older rides, and a fourth older ride
\* that meets the same criteria is still pending in its own pool.
C11_Witness ==
  /\ resp.op = "createRide"
  /\ rides[resp.rid].status = "pooling"
  /\ Cardinality({r \in DOMAIN rides :
                    /\ r < resp.rid
                    /\ rides[r].status = "pooling"
                    /\ rides[r].poolId = rides[resp.rid].poolId}) = 3
  /\ \E r \in DOMAIN rides :
       /\ r < resp.rid
       /\ rides[r].status = "pending"
       /\ rides[r].poolId = r
       /\ rides[r].pickupLandmark = rides[resp.rid].pickupLandmark
       /\ Abs(rides[r].scheduledTime - rides[resp.rid].scheduledTime) <= 30 * 60 * 1000
       /\ Abs(rides[r].destination.location.coordinates
                - rides[resp.rid].destination.location.coordinates) <= 3

\* C12: a createRide that no ride matches leaves the new ride pending with a poolId
\* no other ride carries, and leaves every ride that existed before as it was.
C12_NoMatchStaysPending ==
  [][Len(rides') = Len(rides) + 1
     => LET new == rides'[Len(rides')]
        IN MatchedBy(new) = {}
           => /\ new.status = "pending"
              /\ \A r \in DOMAIN rides :
                   rides'[r] = rides[r] /\ rides'[r].poolId # new.poolId]_vars

\* C12 witness: the last booking is pending in its own pool next to an older ride
\* that is pending too but leaves from another landmark.
C12_Witness ==
  /\ resp.op = "createRide"
  /\ rides[resp.rid].status = "pending"
  /\ \E r \in DOMAIN rides :
       /\ r < resp.rid
       /\ rides[r].status = "pending"
       /\ rides[r].pickupLandmark # rides[resp.rid].pickupLandmark
       /\ rides[r].poolId # rides[resp.rid].poolId

\* C13: a step merges a ride into the pool of a new ride only if the ride is
\* pending, leaves from the new ride's landmark, is scheduled at most 30 minutes
\* before or after it and goes to a destination at most 3 km from its own; any
\* other ride keeps its poolId.
C13_OnlyMatchesMerged ==
  [][\A r \in DOMAIN rides :
       rides'[r].poolId # rides[r].poolId
       => /\ rides[r].status = "pending"
          /\ rides[r].pickupLandmark = rides'[rides'[r].poolId].pickupLandmark
          /\ rides[r].scheduledTime - rides'[rides'[r].poolId].scheduledTime
               <= 30 * 60 * 1000
          /\ rides'[rides'[r].poolId].scheduledTime - rides[r].scheduledTime
               <= 30 * 60 * 1000
          /\ Abs(rides[r].destination.location.coordinates
                  - rides'[rides'[r].poolId].destination.location.coordinates) <= 3]_vars

\* C14: in a createRide that merges at least one ride, every ride whose status
\* becomes pooling, the new ride included, gets a ride_pooled entry as the last
\* entry of its logs.
C14_PoolingLogged ==
  [][Len(rides') = Len(rides) + 1
     => \A r \in DOMAIN rides' :
          (/\ rides'[r].status = "pooling"
           /\ r \in DOMAIN rides => rides[r].status # "pooling")
          => rides'[r].logs[Len(rides'[r].logs)].action = "ride_pooled"]_vars

\* C15: the step in which an acceptRide of ride R by driver D ends with success
\* leaves R assigned to D, and leaves every ride that was pooling in R's pool
\* assigned to D as well.
C15_AcceptAssignsPool ==
  [][\A q \in inflight, q2 \in inflight' :
       (/\ q.id = q2.id /\ q.op = "acceptRide"
        /\ q.pc # "done" /\ q2.pc = "done" /\ q2.code = 200)
       => /\ rides'[q.rid].status = "assigned"
          /\ rides'[q.rid].driver = q.user
          /\ \A r \in DOMAIN rides :
               (rides[r].status = "pooling" /\ rides[r].poolId = rides[q.rid].poolId)
               => rides'[r].status = "assigned" /\ rides'[r].driver = q.user]_vars

\* C16: an acceptRide ends with success only if, when it writes the ride, the driver
\* is verified and drives no ride that is assigned or started and the ride is pending
\* or pooling; in every other case it is rejected.
C16_AcceptRejected ==
  [][\A q \in inflight, q2 \in inflight' :
       (/\ q.id = q2.id /\ q.op = "acceptRide"
        /\ q.pc # "done" /\ q2.pc = "done" /\ q2.code = 200)
       => /\ users[q.user].driverDetails.isVerified
          /\ rides[q.rid].status \in {"pending", "pooling"}
          /\ ~\E r \in DOMAIN rides :
                rides[r].driver = q.user /\ rides[r].status \in {"assigned", "started"}]_vars

\* C17: cancelRide by the assigned driver of an assigned ride leaves the ride
\* pending without driver, its cancellationReason and passenger entries as they
\* were, and appends exactly one log entry, with action driver_cancelled.
C17_DriverCancelResets ==
  [][(/\ served' = served + 1
      /\ resp'.op = "cancelRide"
      /\ rides[resp'.rid].status = "assigned"
      /\ rides[resp'.rid].driver = resp'.user)
     => /\ rides'[resp'.rid].status = "pending"
        /\ rides'[resp'.rid].driver = NoUser
        /\ rides'[resp'.rid].cancellationReason = rides[resp'.rid].cancellationReason
        /\ rides'[resp'.rid].passengers = rides[resp'.rid].passengers
        /\ rides'[resp'.rid].logs =
             Append(rides[resp'.rid].logs,
                    [action |-> "driver_cancelled", user |-> resp'.user])]_vars

\* C17 witness: the last request was the cancelRide of a driver on a ride that was
\* never started; the ride is pending again, without driver.
C17_Witness ==
  /\ resp.op = "cancelRide"
  /\ resp.user \in Drivers
  /\ rides[resp.rid].status = "pending"
  /\ rides[resp.rid].driver = NoUser
  /\ ~rides[resp.rid].startedAt
  /\ rides[resp.rid].logs[Len(rides[resp.rid].logs)].action = "driver_cancelled"

\* C18: cancelRide with a reason by a passenger of a pending or pooling ride succeeds
\* and leaves the ride cancelled with that reason, the passenger's own entry
\* cancelled and a ride_cancelled log entry appended; cancelRide by an admin changes
\* no passenger entry.
C18_CancelByPassengerOrAdmin ==
  \A r \in DOMAIN rides, x \in Reasons \ {""} :
    /\ rides[r].status \in {"pending", "pooling"}
       => \A i \in DOMAIN rides[r].passengers :
            \A o \in Run(DB, NewReq("cancelRide", rides[r].passengers[i].user, r,
                                    [reason |-> x])) :
              /\ o.q.code = 200
              /\ o.db.rides[r].status = "cancelled"
              /\ o.db.rides[r].cancellationReason = x
              /\ o.db.rides[r].passengers[i].status = "cancelled"
              /\ o.db.rides[r].logs =
                   Append(rides[r].logs,
                          [action |-> "ride_cancelled",
                           user |-> rides[r].passengers[i].user])
    /\ \A a \in Admins :
         \A o \in Run(DB, NewReq("cancelRide", a, r, [reason |-> x])) :
           /\ rides[r].status \in {"pending", "pooling"}
              => o.q.code = 200 /\ o.db.rides[r].status = "cancelled"
           /\ o.db.rides[r].passengers = rides[r].passengers

\* C18 witness: the last request was the cancelRide of a passenger on a ride no
\* driver ever had; the ride and the passenger's entry are cancelled, and in the same
\* state another ride is still pending or pooling for an admin to cancel.
C18_Witness ==
  /\ resp.op = "cancelRide"
  /\ resp.user \in Passengers
  /\ rides[resp.rid].status = "cancelled"
  /\ rides[resp.rid].cancellationReason # ""
  /\ rides[resp.rid].passengers[1].status = "cancelled"
  /\ \A i \in DOMAIN rides[resp.rid].logs :
       rides[resp.rid].logs[i].action \in {"ride_created", "ride_pooled", "ride_cancelled"}
  /\ \E r \in DOMAIN rides : rides[r].status \in {"pending", "pooling"}

\* C19: completeRide by a driver on a ride that is not started is answered with an
\* invalid-state error that names the ride's status, not with 403 Forbidden, and
\* writes nothing.
C19_CompleteInvalidState ==
  \A d \in Drivers, r \in DOMAIN rides :
    rides[r].status # "started"
    => \A o \in Run(DB, NewReq("completeRide", d, r, NoLoc)) :
         /\ o.q.code >= 400
         /\ o.q.code # 403
         /\ o.q.error = "Ride cannot be completed in " \o rides[r].status \o " status"
         /\ o.db = DB

\* C20: a successful completeRide adds 1 to the acting driver's ridesCompleted and
\* the ride's totalFare to the driver's totalEarnings, adds 1 to the totalRides of
\* the ride's city and totalFare to its totalRevenue; any other step leaves these
\* counters of every driver and every city as they were.
C20_CompletionCounters ==
  [][IF served' = served + 1 /\ resp'.op = "completeRide"
     THEN /\ users'[resp'.user].stats.ridesCompleted
               = users[resp'.user].stats.ridesCompleted + 1
          /\ users'[resp'.user].stats.totalEarnings
               = Plus(users[resp'.user].stats.totalEarnings, rides[resp'.rid].fare.totalFare)
          /\ cities'[rides[resp'.rid].city].stats.totalRides
               = cities[rides[resp'.rid].city].stats.totalRides + 1
          /\ cities'[rides[resp'.rid].city].stats.totalRevenue
               = Plus(cities[rides[resp'.rid].city].stats.totalRevenue,
                      rides[resp'.rid].fare.totalFare)
     ELSE /\ \A d \in Drivers :
               /\ users'[d].stats.ridesCompleted = users[d].stats.ridesCompleted
               /\ users'[d].stats.totalEarnings = users[d].stats.totalEarnings
          /\ \A c \in DOMAIN cities :
               /\ cities'[c].stats.totalRides = cities[c].stats.totalRides
               /\ cities'[c].stats.totalRevenue = cities[c].stats.totalRevenue]_vars

\* the distance between two amounts, and whether it is at most a billionth of y
Gap(x, y) == IF Less(x, y) THEN Minus(y, x) ELSE Minus(x, y)
Near(x, y) == ~Less(Times(y, Number(1, 1000000000)), Gap(x, y))

\* C28 as stated: calculateFare returns totalFare = 50 + 12 * distance and a
\* farePerPassenger that, multiplied by passengerCount, is sharedFare; for distance
\* 10 and one passenger it returns totalFare 170, discount 0, farePerPassenger 170.
C28_FareExact ==
  resp.returned =>
    /\ resp.fare.totalFare = Number(500 + 12 * resp.tenths, 10)
    /\ Times(resp.fare.farePerPassenger, Number(resp.passengers, 1)) = resp.fare.sharedFare
    /\ resp.tenths = 100 /\ resp.passengers = 1 =>
         /\ resp.fare.totalFare = Number(170, 1)
         /\ resp.fare.discount = Zero
         /\ resp.fare.farePerPassenger = Number(170, 1)

\* C28 amended: the two equations hold up to the rounding of the arithmetic (to a
\* billionth of the amount), totalFare exactly for a whole number of kilometres;
\* the fare for distance 10 and one passenger is exactly 170, 0 and 170.
C28_FareWithinRounding ==
  resp.returned =>
    /\ Near(resp.fare.totalFare, Number(500 + 12 * resp.tenths, 10))
    /\ resp.tenths % 10 = 0 =>
         resp.fare.totalFare = Number(50 + 12 * (resp.tenths \div 10), 1)
    /\ Near(Times(resp.fare.farePerPassenger, Number(resp.passengers, 1)),
            resp.fare.sharedFare)
    /\ resp.tenths = 100 /\ resp.passengers = 1 =>
         /\ resp.fare.totalFare = Number(170, 1)
         /\ resp.fare.discount = Zero
         /\ resp.fare.farePerPassenger = Number(170, 1)

\* a fare whose per-passenger share, multiplied back, misses sharedFare
C28_Witness ==
  /\ resp.returned
  /\ resp.passengers = 3
  /\ Times(resp.fare.farePerPassenger, Number(3, 1)) # resp.fare.sharedFare

\* C29 as stated: the discount is 0 for one passenger, 10 * (passengerCount - 1)
\* percent for 2..5 passengers, never above 40 percent, and does not decrease when
\* passengerCount grows.
C29_DiscountExact ==
  resp.returned =>
    /\ resp.passengers = 1 => resp.fare.discount = Zero
    /\ resp.passengers \in 2..5 =>
         resp.fare.discount = Number(10 * (resp.passengers - 1), 1)
    /\ ~Less(Number(40, 1), resp.fare.discount)
    /\ resp.passengers > 1 =>
         ~Less(resp.fare.discount,
               calculateFare(Number(resp.tenths, 10), resp.passengers - 1).discount)

\* C29 amended: for 2..5 passengers the discount is 10 * (passengerCount - 1)
\* percent up to the rounding of the arithmetic (to a billionth of it); the rest as
\* stated.
C29_DiscountWithinRounding ==
  resp.returned =>
    /\ resp.passengers = 1 => resp.fare.discount = Zero
    /\ resp.passengers \in 2..5 =>
         Near(resp.fare.discount, Number(10 * (resp.passengers - 1), 1))
    /\ ~Less(Number(40, 1), resp.fare.discount)
    /\ resp.passengers > 1 =>
         ~Less(resp.fare.discount,
               calculateFare(Number(resp.tenths, 10), resp.passengers - 1).discount)

\* four passengers: the discount returned is not 30
C29_Witness ==
  /\ resp.returned
  /\ resp.passengers = 4
  /\ resp.fare.discount # Number(30, 1)

\* C30: after every step every ride has at least one passenger entry, and the step
\* has removed no entry: each ride keeps its entries, in order and for the same
\* users (a cancellation only changes an entry's status).
C30_PassengersKept ==
  [][/\ \A r \in DOMAIN rides' : Len(rides'[r].passengers) >= 1
     /\ \A r \in DOMAIN rides :
          /\ Len(rides'[r].passengers) >= Len(rides[r].passengers)
          /\ \A i \in DOMAIN rides[r].passengers :
               rides'[r].passengers[i].user = rides[r].passengers[i].user]_vars

\* a ride its passenger cancelled: the entry is still there, with status cancelled
C30_Witness ==
  \E r \in DOMAIN rides :
    /\ rides[r].status = "cancelled"
    /\ Len(rides[r].passengers) = 1
    /\ rides[r].passengers[1].status = "cancelled"


\* the log actions a successful request to each route leaves on its ride
LoggedAs(op) ==
  CASE op = "createRide" -> {"ride_created"}
    [] op = "cancelRide" -> {"ride_cancelled", "driver_cancelled"}
    [] op = "acceptRide" -> {"driver_assigned"}
    [] op = "startRide" -> {"ride_started"}
    [] op = "completeRide" -> {"ride_completed"}
    [] op = "rateRide" -> {"ride_rated"}
    [] OTHER -> {}

IsPrefix(s, t) == Len(s) <= Len(t) /\ SubSeq(t, 1, Len(s)) = s

\* C27: in every step, whatever the interleaving, each ride's logs before the step
\* are a prefix of its logs after it; every request to create, cancel, accept, start,
\* complete or rate that has ended with success has left an entry of its own on its
\* ride; and the batch update of a pool merge appends to every ride it merges.
C27_LogsAppendOnly ==
  [][/\ \A r \in DOMAIN rides : IsPrefix(rides[r].logs, rides'[r].logs)
     /\ \A q \in inflight' :
          (q.pc = "done" /\ q.code < 400 /\ LoggedAs(q.op) # {})
          => \E i \in DOMAIN rides'[q.rid].logs :
               /\ rides'[q.rid].logs[i].user = q.user
               /\ rides'[q.rid].logs[i].action \in LoggedAs(q.op)
     /\ \A q \in inflight \ inflight' :
          (q.op = "createRide" /\ q.pc = "updateMany")
          => \A r \in q.loc.matches : Len(rides'[r].logs) > Len(rides[r].logs)]_vars

\* a ride that was booked, merged into a pool and then cancelled, while the request
\* that cancelled it has not been answered yet
C27_Witness ==
  \E r \in DOMAIN rides, q \in inflight :
    /\ Len(rides[r].logs) >= 3
    /\ \E i \in DOMAIN rides[r].logs : rides[r].logs[i].action = "ride_pooled"
    /\ q.op = "cancelRide" /\ q.rid = r /\ q.pc = "done" /\ q.code = 200


\* C22: no step, of any route and in any interleaving, changes an existing ride's
\* fare (baseFare, distanceFare, totalFare, discount), its estimatedDistance or the
\* fare of any of its passenger entries.
C22_FareFixed ==
  [][\A r \in DOMAIN rides :
       /\ rides'[r].fare = rides[r].fare
       /\ rides'[r].estimatedDistance = rides[r].estimatedDistance
       /\ \A i \in DOMAIN rides[r].passengers :
            rides'[r].passengers[i].fare = rides[r].passengers[i].fare]_vars

\* a ride that a later booking merged into its pool and a driver then accepted,
\* still with the fare of a single booking
C22_Witness ==
  \E r \in DOMAIN rides :
    /\ \E i \in DOMAIN rides[r].logs : rides[r].logs[i].action = "ride_pooled"
    /\ rides[r].driver # NoUser
    /\ rides[r].fare.baseFare = Number(50, 1)
    /\ rides[r].passengers[1].fare # Zero


Terminal(ride) == ride.status \in {"completed", "cancelled"}

\* C25: addMessage on a completed or cancelled ride is rejected and leaves the
\* ride's messages as they are; on any other ride, addMessage with a text by one of
\* its passengers, its driver or an admin appends exactly one message and leaves
\* the status as it is.
C25_NoMessageAfterEnd ==
  \A r \in DOMAIN rides, u \in UserIds :
    \A o \in Run(DB, NewReq("addMessage", u, r, [text |-> "hi"])) :
      IF Terminal(rides[r])
      THEN /\ o.q.code >= 400
           /\ o.db.rides[r].messages = rides[r].messages
      ELSE (\/ \E i \in DOMAIN rides[r].passengers : rides[r].passengers[i].user = u
            \/ rides[r].driver = u
            \/ u \in Admins)
           => /\ o.q.code = 201
              /\ o.db.rides[r].messages
                   = Append(rides[r].messages, [sender |-> u, text |-> "hi"])
              /\ o.db.rides[r].status = rides[r].status


C21_PickupCount ==
  inflight = {}
  => \A l \in DOMAIN landmarks :
       landmarks[l].stats.pickupCount
         = Cardinality({r \in DOMAIN rides : rides[r].pickupLandmark = l})

\* C31: all the rides that are assigned or started with the same driver carry one
\* poolId: a driver is never active on two different pools at once.
C31_DriverOnOnePool ==
  \A r1 \in DOMAIN rides, r2 \in DOMAIN rides :
    (/\ Active(rides[r1]) /\ Active(rides[r2])
     /\ rides[r1].driver # NoUser
     /\ rides[r1].driver = rides[r2].driver)
    => rides[r1].poolId = rides[r2].poolId

\* C32: whenever no request is in flight, the ridesCompleted of each driver is the
\* number of completed rides that have this driver, and the totalRides of each city
\* is the number of completed rides of this city: a ride counts once, also when
\* two requests to complete it were interleaved.
C32_CompletedOnce ==
  inflight = {}
  => /\ \A d \in Drivers :
          users[d].stats.ridesCompleted
            = Cardinality({r \in DOMAIN rides :
                             rides[r].status = "completed" /\ rides[r].driver = d})
     /\ \A c \in DOMAIN cities :
          cities[c].stats.totalRides
            = Cardinality({r \in DOMAIN rides :
                             rides[r].status = "completed" /\ rides[r].city = c})

\* C33: no poolId is carried by more than 4 rides, and a ride changes its poolId
\* only while it is not pooling and only to the poolId of the ride that the
\* createRide being handled has just created.
C33_PoolGrowsOnlyAtCreation ==
  [][/\ \A r \in DOMAIN rides' :
          Cardinality({r2 \in DOMAIN rides' : rides'[r2].poolId = rides'[r].poolId}) <= 4
     /\ \A r \in DOMAIN rides :
          rides'[r].poolId # rides[r].poolId
          => /\ rides[r].status # "pooling"
             /\ \/ Len(rides') = Len(rides) + 1 /\ rides'[r].poolId = Len(rides')
                \/ \E q \in inflight :
                     /\ q.op = "createRide" /\ q.pc = "updateMany"
                     /\ rides'[r].poolId = q.loc.poolId]_vars

\* C34: when requests run one at a time, a ride that is assigned, started or
\* completed has a driver, a ride that is started or completed has startedAt, a
\* completed ride has completedAt, and a ride with a cancellationReason is
\* cancelled.
C34_FieldsFollowStatus ==
  \A r \in DOMAIN rides :
    /\ rides[r].status \in {"assigned", "started", "completed"} => rides[r].driver # NoUser
    /\ rides[r].status \in {"started", "completed"} => rides[r].startedAt
    /\ rides[r].status = "completed" => rides[r].completedAt
    /\ rides[r].cancellationReason # "" => rides[r].status = "cancelled"

\* C34 witness: a cancelled ride that carries its cancellationReason next to a
\* started ride with its driver and startedAt and no completedAt yet.
C34_Witness ==
  \E r1 \in DOMAIN rides, r2 \in DOMAIN rides :
    /\ rides[r1].status = "cancelled"
    /\ rides[r1].cancellationReason # ""
    /\ rides[r2].status = "started"
    /\ rides[r2].driver # NoUser /\ rides[r2].startedAt /\ ~rides[r2].completedAt

\* C35: a request to a ride route that is answered with the error of a guard (400,
\* 403 or 404) leaves every ride, user, landmark and city as it was before the
\* request.
C35_GuardErrorsWriteNothing ==
  \A q \in RouteRequests :
    \A o \in Run(DB, q) :
      o.q.code \in {400, 403, 404} => o.db = DB

\* C35 witness: a driver with an active ride asks for another ride that is still
\* open and is turned down by the active-ride guard, a passenger's cancel of
\* another passenger's ride is turned down as not authorized, and neither writes.
C35_Witness ==
  /\ \E d \in Drivers, r \in DOMAIN rides :
       \E o \in Run(DB, NewReq("acceptRide", d, r, NoLoc)) :
         o.q.error = "Driver already has an active ride" /\ o.db = DB
  /\ \E p \in Passengers, r \in DOMAIN rides :
       \E o \in Run(DB, NewReq("cancelRide", p, r, [reason |-> "plans changed"])) :
         o.q.error = "Not authorized to cancel this ride" /\ o.db = DB

C38_EveryLocationStored ==
  \A r \in DOMAIN rides, b \in Locations :
    (Active(rides[r]) /\ rides[r].driver # NoUser)
    => \A o \in Run(DB, NewReq("updateDriverLocation", rides[r].driver, r, b)) :
         /\ o.q.code = 200
         /\ o.db.rides[r].driverLocation.coordinates = <<b.lng, b.lat>>

====
